---- MODULE Spec2Model ----
(***************************************************************************)
(* Model of backend/ai_ask.py: the retrieval-augmented answering pipeline  *)
(* (document loading and chunking, one-shot background indexing, retrieval,*)
(* conversation memory, and the /ask endpoint).                            *)
(*                                                                         *)
(* Texts are sequences of one-character strings.                           *)
(***************************************************************************)
EXTENDS Integers, Sequences, FiniteSets, TLC

(***************************************************************************)
(* Bounds of the model.                                                    *)
(***************************************************************************)
MaxRequests == 2
MaxTextLen == 4
MaxSize == 3
MaxHistory == 7
MaxIter == MaxTextLen + 2

(***************************************************************************)
(* Program constants.                                                      *)
(***************************************************************************)
CHUNK_SIZE == 500
CHUNK_OVERLAP == 50
TOP_K == 6
HISTORY_WINDOW == 5
HTTP_OK == 200

\* "⚠️ Hiba az Ollama API hívásakor" (abbreviated)
OLLAMA_ERROR == <<"!", "H", "i", "b", "a">>
\* "⚠️ Üres válasz érkezett." (abbreviated)
EMPTY_ANSWER == <<"!", "U", "r", "e", "s">>

(***************************************************************************)
(* Python string and list primitives.                                      *)
(***************************************************************************)
Min(a, b) == IF a < b THEN a ELSE b
Max(a, b) == IF a > b THEN a ELSE b

\* A slice bound as Python clamps it: a negative bound counts from the end.
PyIndex(i, n) == IF i < 0 THEN Max(n + i, 0) ELSE Min(i, n)

\* s[a:b]
PySlice(s, a, b) ==
    LET lo == PyIndex(a, Len(s))
        hi == PyIndex(b, Len(s))
    IN  IF lo < hi THEN SubSeq(s, lo + 1, hi) ELSE <<>>

\* s[-n:] for n > 0
PyLast(s, n) == PySlice(s, 0 - n, Len(s))

IsSpace(c) == c \in {" ", "\n", "\t"}

RECURSIVE lstrip(_)
lstrip(s) == IF s # <<>> /\ IsSpace(Head(s)) THEN lstrip(Tail(s)) ELSE s

RECURSIVE rstrip(_)
rstrip(s) ==
    IF s # <<>> /\ IsSpace(s[Len(s)]) THEN rstrip(SubSeq(s, 1, Len(s) - 1)) ELSE s

\* str.strip()
strip(s) == rstrip(lstrip(s))

\* str.replace(old, new) for a non-empty old: the leftmost occurrence is
\* replaced, then the search goes on after it (occurrences do not overlap).
RECURSIVE replace(_, _, _)
replace(s, old, new) ==
    LET starts == {k \in 1..(Len(s) - Len(old) + 1) : SubSeq(s, k, k + Len(old) - 1) = old}
    IN  IF starts = {} THEN s
        ELSE LET k == CHOOSE m \in starts : \A j \in starts : m <= j
             IN  SubSeq(s, 1, k - 1) \o new
                   \o replace(SubSeq(s, k + Len(old), Len(s)), old, new)

\* str.endswith(suffix)
endswith(s, suffix) ==
    Len(s) >= Len(suffix) /\ SubSeq(s, Len(s) - Len(suffix) + 1, Len(s)) = suffix

RECURSIVE Concat(_)
Concat(ss) == IF ss = <<>> THEN <<>> ELSE Head(ss) \o Concat(Tail(ss))

(***************************************************************************)
(* chunk_text.  One pass of the while loop body, then the whole function.  *)
(***************************************************************************)
chunk_body_step_ignores_overlap(text, chunk_size, overlap, start, chunks) ==
    [start  |-> start + chunk_size,
     chunks |-> Append(chunks, PySlice(text, start, start + chunk_size))]

chunk_body_window_too_long(text, chunk_size, overlap, start, chunks) ==
    [start  |-> start + (chunk_size - overlap),
     chunks |-> Append(chunks, PySlice(text, start, start + chunk_size + 1))]

chunk_body(text, chunk_size, overlap, start, chunks) ==
    [start  |-> start + (chunk_size - overlap),
     chunks |-> Append(chunks, PySlice(text, start, start + chunk_size))]

RECURSIVE chunk_loop(_, _, _, _, _)
chunk_loop(text, chunk_size, overlap, start, chunks) ==
    IF start < Len(text)
    THEN LET n == chunk_body(text, chunk_size, overlap, start, chunks)
         IN  chunk_loop(text, chunk_size, overlap, n.start, n.chunks)
    ELSE chunks

\* Called by ensure_index with the defaults only (500 > 50, so the loop ends).
chunk_text(text) == chunk_loop(text, CHUNK_SIZE, CHUNK_OVERLAP, 0, <<>>)

(***************************************************************************)
(* State.                                                                  *)
(***************************************************************************)
VARIABLES
    folder,                \* which of the Folders ./documents is
    _index_started,        \* line 8
    collection,            \* line 14: the entries of the "docs" collection, oldest first
    conversation_history,  \* line 17
    threads,               \* the ensure_index threads started so far (line 57)
    pc,                    \* position of the module import (0) and of each request
    running,               \* the request whose handler holds the event loop, or 0
    served,                \* the requests in the order their handlers began
    req,                   \* per request: the question and the locals of ask_ollama
    ctext, csize, coverlap,   \* chunk_text: arguments of the call under study
    cstart, cchunks, cpc      \* chunk_text: locals and position

cvars == <<ctext, csize, coverlap, cstart, cchunks, cpc>>
ixvars == <<folder, _index_started, collection, threads>>
askvars == <<conversation_history, pc, running, served, req>>
vars == <<ixvars, askvars, cvars>>

Requests == 1..MaxRequests
Callers == 0..MaxRequests

(***************************************************************************)
(* The environment: the document folder, the embedder, the collection and  *)
(* the generation backend.                                                 *)
(***************************************************************************)
TXT == <<".", "t", "x", "t">>

LongContent == [k \in 1..(CHUNK_SIZE - CHUNK_OVERLAP + 1) |-> IF k % 2 = 0 THEN "x" ELSE "y"]

File(name, content, readable) == [name |-> name, content |-> content, readable |-> readable]

FileA == File(<<"a">> \o TXT, <<" ", "p", "\n", "q", " ">>, TRUE)
FileB == File(<<"b">> \o TXT, LongContent, TRUE)
FileN == File(<<"n", ".", "m", "d">>, <<"z">>, TRUE)
FileE == File(<<"e">> \o TXT, <<>>, TRUE)
FileU == File(<<"u">> \o TXT, <<"w">>, FALSE)
FileS == File(<<"s">> \o TXT, <<"p", " ", " ", " ", "q", "\t", "\t", "r", "\n", " ", "\n">>, TRUE)

\* The folders considered, by name; listdir gives the files in some fixed order.
Folders == {"empty", "readable", "unreadable", "spaced"}

listdir(f) ==
    CASE f = "empty"      -> <<>>
      [] f = "readable"   -> <<FileE, FileA, FileN, FileB>>
      [] f = "unreadable" -> <<FileA, FileU, FileB>>
      [] f = "spaced"     -> <<FileS>>

Questions == {<<"Q", "1">>, <<"Q", "2">>}

\* What the backend can put in the "response" field of a 200 reply.
GenTexts == {<<>>, <<" ">>, <<" ", "A", "\n">>, <<"B">>}

\* embedder.encode(text).tolist(): a deterministic vector, here of one component.
encode(text) == (Len(text) + Cardinality({k \in 1..Len(text) : text[k] = "x"})) % 5

Distance(a, b) == IF a < b THEN b - a ELSE a - b

\* collection.get()["ids"]
collection_ids(coll) == [k \in 1..Len(coll) |-> coll[k].id]

\* The entries nearest first, ties in insertion order.
RECURSIVE Ranked(_, _)
Ranked(coll, q_emb) ==
    IF coll = <<>> THEN <<>>
    ELSE LET best == CHOOSE k \in 1..Len(coll) :
                        \A j \in 1..Len(coll) :
                            \/ Distance(coll[k].embedding, q_emb) < Distance(coll[j].embedding, q_emb)
                            \/ /\ Distance(coll[k].embedding, q_emb) = Distance(coll[j].embedding, q_emb)
                               /\ k <= j
             rest == [j \in 1..(Len(coll) - 1) |-> IF j < best THEN coll[j] ELSE coll[j + 1]]
         IN  <<coll[best]>> \o Ranked(rest, q_emb)

\* collection.query(query_embeddings=[q_emb], n_results=n): one result list per
\* query embedding, holding at most n documents.
collection_query(coll, q_emb, n) ==
    LET ranked == Ranked(coll, q_emb)
    IN  [documents |-> << [k \in 1..Min(n, Len(ranked)) |-> ranked[k].document] >>]

(***************************************************************************)
(* load_documents                                                          *)
(***************************************************************************)
\* line 25
normalize(content) == strip(replace(replace(content, <<"\n">>, <<" ">>), <<" ", " ">>, <<" ">>))

\* lines 22-26 for the files of `listing`; ok is FALSE when open() raised.
RECURSIVE load_documents(_)
load_documents(listing) ==
    IF listing = <<>> THEN [ok |-> TRUE, docs |-> <<>>]
    ELSE LET f == Head(listing)
             rest == load_documents(Tail(listing))
         IN  IF ~endswith(f.name, TXT) THEN rest
             ELSE IF ~f.readable THEN [ok |-> FALSE, docs |-> <<>>]
             ELSE [ok |-> rest.ok,
                   docs |-> IF rest.ok
                            THEN <<[name |-> f.name, content |-> normalize(f.content)]>> \o rest.docs
                            ELSE <<>>]

(***************************************************************************)
(* ensure_index, run by a background thread.                               *)
(***************************************************************************)
\* The locals of a thread.  The folder does not change while the program runs,
\* so docs (line 40) and chunks (line 42) are kept as the position (d, i) and
\* read back from the folder.
\* exc names the exception that ended the thread, if one did.
NewThread == [pc |-> "check", d |-> 0, i |-> 0, emb |-> 0, exc |-> "none"]

\* load_documents() and chunk_text(doc["content"]) for each folder, worked out once.
Loaded == [f \in Folders |-> load_documents(listdir(f))]

Chunked == [f \in Folders |-> [d \in 1..Len(Loaded[f].docs) |-> chunk_text(Loaded[f].docs[d].content)]]

docs_of(f) == Loaded[f].docs

chunks_of(f, d) == Chunked[f][d]

\* The loops of lines 41-43: the next (doc, chunk) at or after chunk i of doc d.
RECURSIVE NextChunk(_, _, _)
NextChunk(f, d, i) ==
    IF d > Len(docs_of(f)) THEN [done |-> TRUE, d |-> d, i |-> 0]
    ELSE IF i <= Len(chunks_of(f, d))
         THEN [done |-> FALSE, d |-> d, i |-> i]
         ELSE NextChunk(f, d + 1, 1)

Goto(t, nxt) ==
    [threads[t] EXCEPT !.pc = IF nxt.done THEN "done" ELSE "embed", !.d = nxt.d, !.i = nxt.i]

\* line 38
ensure_index_check(t) ==
    /\ threads[t].pc = "check"
    /\ threads' = [threads EXCEPT ![t].pc =
                      IF Len(collection_ids(collection)) = 0 THEN "load" ELSE "done"]
    /\ UNCHANGED <<folder, _index_started, collection, askvars, cvars>>

\* line 40, and lines 41-43 up to the first chunk
ensure_index_load(t) ==
    /\ threads[t].pc = "load"
    /\ LET loaded == Loaded[folder]
       IN  threads' = [threads EXCEPT ![t] =
              IF loaded.ok
              THEN Goto(t, NextChunk(folder, 1, 1))
              ELSE [@ EXCEPT !.pc = "crashed", !.exc = "OSError"]]
    /\ UNCHANGED <<folder, _index_started, collection, askvars, cvars>>

\* line 44: the embedder returns a vector or raises
ensure_index_embed(t) ==
    /\ threads[t].pc = "embed"
    /\ \/ threads' = [threads EXCEPT
                        ![t].pc = "add",
                        ![t].emb = encode(chunks_of(folder, threads[t].d)[threads[t].i])]
       \/ threads' = [threads EXCEPT ![t].pc = "crashed", ![t].exc = "EmbeddingFailure"]
    /\ UNCHANGED <<folder, _index_started, collection, askvars, cvars>>

\* str(n) for n >= 0
RECURSIVE Digits(_)
Digits(n) ==
    LET digit == <<"0", "1", "2", "3", "4", "5", "6", "7", "8", "9">>
    IN  IF n < 10 THEN <<digit[n + 1]>> ELSE Digits(n \div 10) \o <<digit[(n % 10) + 1]>>

\* line 46: f"{doc['name']}_{i}"
chunk_id_without_index(name, i) == name

chunk_id(name, i) == name \o <<"_">> \o Digits(i)

\* lines 46-49; i counts the chunks of the document from 1, enumerate from 0
Entry(doc, i, chunk, emb) ==
    [id        |-> chunk_id(doc.name, i - 1),
     document  |-> doc.name \o <<":", " ">> \o chunk,
     source    |-> doc.name,
     embedding |-> emb]

ensure_index_add_goes_on_after_failure(t) ==
    /\ threads[t].pc = "add"
    /\ LET th == threads[t]
           docs == docs_of(folder)
           e == Entry(docs[th.d], th.i, chunks_of(folder, th.d)[th.i], th.emb)
           nxt == Goto(t, NextChunk(folder, th.d, th.i + 1))
       IN  \/ /\ collection' = Append(collection, e)
              /\ threads' = [threads EXCEPT ![t] = nxt]
           \/ /\ threads' = [threads EXCEPT ![t] = [nxt EXCEPT !.exc = "IndexFailure"]]
              /\ UNCHANGED collection
    /\ UNCHANGED <<folder, _index_started, askvars, cvars>>

\* lines 45-50, then lines 41-43 up to the next chunk; the collection stores
\* the entry (an id it already holds is not stored again) or raises
ensure_index_add(t) ==
    /\ threads[t].pc = "add"
    /\ LET th == threads[t]
           docs == docs_of(folder)
           e == Entry(docs[th.d], th.i, chunks_of(folder, th.d)[th.i], th.emb)
       IN  \/ /\ collection' = IF \E k \in 1..Len(collection) : collection[k].id = e.id
                               THEN collection
                               ELSE Append(collection, e)
              /\ threads' = [threads EXCEPT ![t] = Goto(t, NextChunk(folder, th.d, th.i + 1))]
           \/ /\ threads' = [threads EXCEPT ![t].pc = "crashed", ![t].exc = "IndexFailure"]
              /\ UNCHANGED collection
    /\ UNCHANGED <<folder, _index_started, askvars, cvars>>

(***************************************************************************)
(* ensure_index_background, called by the module import (caller 0, line 60)*)
(* and by every request (line 123).                                        *)
(***************************************************************************)
AfterTrigger(p) == IF p = 0 THEN "loaded" ELSE "embed"

ensure_index_background_check_ignores_flag(p) ==
    /\ pc[p] = "trigger"
    /\ pc' = [pc EXCEPT ![p] = "start"]
    /\ UNCHANGED <<ixvars, conversation_history, running, served, req, cvars>>

\* line 55
ensure_index_background_check(p) ==
    /\ pc[p] = "trigger"
    /\ pc' = [pc EXCEPT ![p] = IF ~_index_started THEN "start" ELSE AfterTrigger(p)]
    /\ UNCHANGED <<ixvars, conversation_history, running, served, req, cvars>>

ensure_index_background_start_flag_not_set(p) ==
    /\ pc[p] = "start"
    /\ _index_started' = FALSE
    /\ threads' = Append(threads, NewThread)
    /\ pc' = [pc EXCEPT ![p] = AfterTrigger(p)]
    /\ UNCHANGED <<folder, collection, conversation_history, running, served, req, cvars>>

\* lines 56-57
ensure_index_background_start(p) ==
    /\ pc[p] = "start"
    /\ _index_started' = TRUE
    /\ threads' = Append(threads, NewThread)
    /\ pc' = [pc EXCEPT ![p] = AfterTrigger(p)]
    /\ UNCHANGED <<folder, collection, conversation_history, running, served, req, cvars>>

(***************************************************************************)
(* The /ask endpoint: ask_api and ask_ollama.  ask_api is a coroutine that *)
(* never awaits, so one handler at a time runs, to its end, on the event   *)
(* loop; the indexing thread runs beside it.                               *)
(***************************************************************************)
NoResponse == [status_code |-> 0, text |-> <<>>]

NewRequest ==
    [question |-> <<>>, q_emb |-> 0, chunks |-> <<>>, history |-> <<>>,
     response |-> NoResponse, answer |-> <<>>, exc |-> "none"]

\* A client posts {question} once the application is up.
Arrive(r) ==
    /\ pc[0] = "loaded"
    /\ pc[r] = "idle"
    /\ \A q \in Requests : q < r => pc[q] # "idle"
    /\ \E question \in Questions :
          req' = [req EXCEPT ![r].question = question]
    /\ pc' = [pc EXCEPT ![r] = "queued"]
    /\ UNCHANGED <<ixvars, conversation_history, running, served, cvars>>

\* line 122: the event loop starts the handler of a waiting request
ask_api(r) ==
    /\ running = 0
    /\ pc[r] = "queued"
    /\ running' = r
    /\ served' = Append(served, r)
    /\ pc' = [pc EXCEPT ![r] = "trigger"]
    /\ UNCHANGED <<ixvars, conversation_history, req, cvars>>

\* An exception leaves ask_ollama and ask_api: the handler ends without an answer.
Raise(r, exc) ==
    /\ req' = [req EXCEPT ![r].exc = exc, ![r].chunks = <<>>, ![r].history = <<>>]
    /\ pc' = [pc EXCEPT ![r] = "raised"]
    /\ running' = 0

\* line 64: the embedder returns a vector or raises
embed_question(r) ==
    /\ pc[r] = "embed"
    /\ \/ /\ req' = [req EXCEPT ![r].q_emb = encode(req[r].question)]
          /\ pc' = [pc EXCEPT ![r] = "query"]
          /\ UNCHANGED running
       \/ Raise(r, "EmbeddingFailure")
    /\ UNCHANGED <<ixvars, conversation_history, served, cvars>>

\* line 66
first_documents_unindexed(results) == results.documents

first_documents(results) ==
    IF results.documents # <<>> THEN results.documents[1] ELSE <<>>

\* lines 65-66
search_relevant_chunks(r) ==
    /\ pc[r] = "query"
    /\ req' = [req EXCEPT ![r].chunks =
                  first_documents(collection_query(collection, req[r].q_emb, TOP_K))]
    /\ pc' = [pc EXCEPT ![r] = "history"]
    /\ UNCHANGED <<ixvars, conversation_history, running, served, cvars>>

\* conversation_history[-5:]
recent_oldest(history, n) == PySlice(history, 0, n)

recent(history, n) == PyLast(history, n)

\* lines 73-75
read_history(r) ==
    /\ pc[r] = "history"
    /\ req' = [req EXCEPT ![r].history = recent(conversation_history, HISTORY_WINDOW)]
    /\ pc' = [pc EXCEPT ![r] = "post"]
    /\ UNCHANGED <<ixvars, conversation_history, running, served, cvars>>

\* lines 99-103: a reply with status 200 and some text, a reply with another
\* status, or requests raises Timeout or ConnectionError
post_generate(r) ==
    /\ pc[r] = "post"
    /\ \/ /\ \E text \in GenTexts :
                req' = [req EXCEPT ![r].response = [status_code |-> HTTP_OK, text |-> text]]
          /\ pc' = [pc EXCEPT ![r] = "reply"]
          /\ UNCHANGED running
       \/ /\ req' = [req EXCEPT ![r].response = [status_code |-> 500, text |-> <<>>]]
          /\ pc' = [pc EXCEPT ![r] = "reply"]
          /\ UNCHANGED running
       \/ Raise(r, "Timeout")
       \/ Raise(r, "ConnectionError")
    /\ UNCHANGED <<ixvars, conversation_history, served, cvars>>

answer_of_untrimmed(text) == IF text # <<>> THEN text ELSE EMPTY_ANSWER

\* line 110
answer_of(text) == IF strip(text) # <<>> THEN strip(text) ELSE EMPTY_ANSWER

\* line 113
append_turn_front(history, question, answer) ==
    <<[user |-> question, bot |-> answer]>> \o history

append_turn(history, question, answer) ==
    Append(history, [user |-> question, bot |-> answer])

\* lines 105-115 and 125-127
reply(r) ==
    /\ pc[r] = "reply"
    /\ IF req[r].response.status_code # HTTP_OK
       THEN /\ req' = [req EXCEPT ![r].answer = OLLAMA_ERROR,
                                  ![r].chunks = <<>>, ![r].history = <<>>]
            /\ UNCHANGED conversation_history
       ELSE LET answer == answer_of(req[r].response.text)
            IN  /\ conversation_history' =
                       append_turn(conversation_history, req[r].question, answer)
                /\ req' = [req EXCEPT ![r].answer = answer,
                                      ![r].chunks = <<>>, ![r].history = <<>>]
    /\ pc' = [pc EXCEPT ![r] = "returned"]
    /\ running' = 0
    /\ UNCHANGED <<ixvars, served, cvars>>

(***************************************************************************)
(* The program.                                                            *)
(***************************************************************************)
ChunkIdle ==
    /\ ctext = <<>>
    /\ csize = CHUNK_SIZE
    /\ coverlap = CHUNK_OVERLAP
    /\ cstart = 0
    /\ cchunks = <<>>
    /\ cpc = "idle"

ProgramInit_without_import_trigger ==
    /\ _index_started = FALSE
    /\ collection = <<>>
    /\ conversation_history = <<>>
    /\ threads = <<>>
    /\ pc = [p \in Callers |-> IF p = 0 THEN "loaded" ELSE "idle"]
    /\ running = 0
    /\ served = <<>>
    /\ req = [r \in Requests |-> NewRequest]

\* lines 8-17 done, line 60 about to run
ProgramInit ==
    /\ _index_started = FALSE
    /\ collection = <<>>
    /\ conversation_history = <<>>
    /\ threads = <<>>
    /\ pc = [p \in Callers |-> IF p = 0 THEN "trigger" ELSE "idle"]
    /\ running = 0
    /\ served = <<>>
    /\ req = [r \in Requests |-> NewRequest]

Init ==
    /\ folder \in Folders
    /\ ProgramInit
    /\ ChunkIdle

Next ==
    \/ \E p \in Callers : ensure_index_background_check(p)
    \/ \E p \in Callers : ensure_index_background_start(p)
    \/ \E t \in 1..Len(threads) : ensure_index_check(t)
    \/ \E t \in 1..Len(threads) : ensure_index_load(t)
    \/ \E t \in 1..Len(threads) : ensure_index_embed(t)
    \/ \E t \in 1..Len(threads) : ensure_index_add(t)
    \/ \E r \in Requests : Arrive(r)
    \/ \E r \in Requests : ask_api(r)
    \/ \E r \in Requests : embed_question(r)
    \/ \E r \in Requests : search_relevant_chunks(r)
    \/ \E r \in Requests : read_history(r)
    \/ \E r \in Requests : post_generate(r)
    \/ \E r \in Requests : reply(r)

Spec == Init /\ [][Next]_vars

(***************************************************************************)
(* The program after it has served some requests: the folder was empty, the*)
(* indexing run is over, and conversation_history holds the turns of the   *)
(* requests served so far.                                                 *)
(***************************************************************************)
PastAnswers == <<answer_of(<<"B">>), answer_of(<<" ", "A", "\n">>), answer_of(<<>>)>>

PastTurn(k) ==
    [user |-> IF k % 2 = 1 THEN <<"Q", "1">> ELSE <<"Q", "2">>,
     bot  |-> PastAnswers[(k % 3) + 1]]

InitMemory ==
    /\ folder = "empty"
    /\ _index_started = TRUE
    /\ collection = <<>>
    /\ threads = <<[NewThread EXCEPT !.pc = "done"]>>
    /\ \E n \in 0..MaxHistory : conversation_history = [k \in 1..n |-> PastTurn(k)]
    /\ pc = [p \in Callers |-> IF p = 0 THEN "loaded" ELSE "idle"]
    /\ running = 0
    /\ served = <<>>
    /\ req = [r \in Requests |-> NewRequest]
    /\ ChunkIdle

NextMemory ==
    \/ \E r \in Requests : Arrive(r)
    \/ \E r \in Requests : ask_api(r)
    \/ \E r \in Requests : ensure_index_background_check(r)
    \/ \E r \in Requests : embed_question(r)
    \/ \E r \in Requests : search_relevant_chunks(r)
    \/ \E r \in Requests : read_history(r)
    \/ \E r \in Requests : post_generate(r)
    \/ \E r \in Requests : reply(r)

SpecMemory == InitMemory /\ [][NextMemory]_vars

(***************************************************************************)
(* chunk_text as a pure function on arbitrary arguments.                   *)
(***************************************************************************)
Chars == {"a", "b"}

RECURSIVE SeqsUpTo(_, _)
SeqsUpTo(S, n) ==
    IF n = 0 THEN {<<>>}
    ELSE LET shorter == SeqsUpTo(S, n - 1)
         IN  shorter \cup {Append(s, x) : s \in {t \in shorter : Len(t) = n - 1}, x \in S}

ChunkInit ==
    /\ ctext \in SeqsUpTo(Chars, MaxTextLen)
    /\ csize \in 1..MaxSize
    /\ coverlap \in 0..MaxSize
    /\ cstart = 0
    /\ cchunks = <<>>
    /\ cpc = "loop"
    /\ folder = "empty"
    /\ ProgramInit

\* line 31 true, lines 32-34
chunk_iterate ==
    /\ cpc = "loop"
    /\ cstart < Len(ctext)
    /\ Len(cchunks) < MaxIter
    /\ LET n == chunk_body(ctext, csize, coverlap, cstart, cchunks)
       IN  /\ cstart' = n.start
           /\ cchunks' = n.chunks
    /\ UNCHANGED <<ctext, csize, coverlap, cpc, ixvars, askvars>>

\* line 31 false, line 35
chunk_return ==
    /\ cpc = "loop"
    /\ ~(cstart < Len(ctext))
    /\ cpc' = "returned"
    /\ UNCHANGED <<ctext, csize, coverlap, cstart, cchunks, ixvars, askvars>>

ChunkNext == chunk_iterate \/ chunk_return

SpecChunk == ChunkInit /\ [][ChunkNext]_vars

(***************************************************************************)
(* Properties of chunk_text (checked under SpecChunk).                     *)
(***************************************************************************)
ChunkArgsValid == csize > coverlap /\ coverlap >= 0 /\ ctext # <<>>

\* C5: chunk_text called on a non-empty text with overlap >= size rejects the
\* call or terminates.  The loop condition depends on the offset alone, so the
\* loop ends only if every pass moves the offset forward; the code has no
\* rejection path, so the claim says every pass it makes advances the offset.
C5_OverlapNotBelowSizeAdvances ==
    [][(ctext # <<>> /\ coverlap >= csize /\ chunk_iterate) => cstart' > cstart]_vars

\* First chunk whole, later chunks without their leading `overlap` characters.
Reconstruct(chunks, overlap) ==
    Concat([k \in 1..Len(chunks) |->
              IF k = 1 THEN chunks[k] ELSE PySlice(chunks[k], overlap, Len(chunks[k]))])

\* C6: for size > overlap >= 0 and non-empty text, chunk_text terminates (it
\* never makes more passes than the text has characters), chunk k is the window
\* of `size` characters starting at (k-1)*(size-overlap), and the first chunk
\* followed by the later chunks minus their leading overlap is the text.
C6_ChunksReconstructText ==
    ChunkArgsValid =>
        /\ Len(cchunks) <= Len(ctext)
        /\ cpc = "loop" => cstart = Len(cchunks) * (csize - coverlap)
        /\ cpc = "returned" =>
              /\ \A k \in 1..Len(cchunks) :
                    cchunks[k] = PySlice(ctext, (k - 1) * (csize - coverlap),
                                                (k - 1) * (csize - coverlap) + csize)
              /\ Reconstruct(cchunks, coverlap) = ctext

C6_Witness ==
    /\ ChunkArgsValid
    /\ cpc = "returned"
    /\ coverlap > 0
    /\ Len(cchunks) >= 3
    /\ Len(cchunks[Len(cchunks)]) < coverlap

\* C7: for size > overlap >= 0 and non-empty text, chunk_text returns at least
\* one chunk, and every chunk has between 1 and `size` characters.
C7_ChunkSizes ==
    (ChunkArgsValid /\ cpc = "returned") =>
        /\ Len(cchunks) >= 1
        /\ \A k \in 1..Len(cchunks) : Len(cchunks[k]) >= 1 /\ Len(cchunks[k]) <= csize

C7_Witness ==
    /\ ChunkArgsValid
    /\ cpc = "returned"
    /\ Len(cchunks) >= 2
    /\ Len(cchunks[1]) = csize
    /\ Len(cchunks[Len(cchunks)]) < csize

(***************************************************************************)
(* Properties of the background indexer and of the /ask endpoint.          *)
(***************************************************************************)
TriggerDone(p) == pc[p] \notin {"idle", "queued", "trigger", "start"}

\* C1: however many triggers of ensure_index_background are issued (the module
\* import and every request), at most one ensure_index thread is ever started,
\* and exactly one has been started once any trigger has completed; the
\* collection holds no id twice.
C1_OneIndexingRun ==
    /\ Len(threads) <= 1
    /\ \A p \in Callers : TriggerDone(p) => Len(threads) = 1
    /\ \A j, k \in 1..Len(collection) : collection[j].id = collection[k].id => j = k

C1_Witness ==
    /\ \E r \in Requests : pc[r] = "embed" /\ \E q \in Requests : pc[q] = "queued"
    /\ Len(threads) = 1
    /\ threads[1].pc = "add"
    /\ Len(collection) >= 1

GenerationFailed(r) ==
    \/ req[r].exc \in {"Timeout", "ConnectionError"}
    \/ req[r].response.status_code \notin {0, HTTP_OK}

Finished(r) == pc[r] \in {"returned", "raised"}

\* C2: a request whose generation call failed (timeout, connection error or a
\* non-2xx reply) ends by returning a fixed fallback message; the failure is
\* not raised out of the handler.
C2_GenerationFailureReturnsFallback ==
    \A r \in Requests :
        (GenerationFailed(r) /\ Finished(r)) =>
            /\ pc[r] = "returned"
            /\ req[r].answer \in {OLLAMA_ERROR, EMPTY_ANSWER}

\* C3: whenever a request returns an answer s, that step has appended exactly
\* the one turn {question, s} to conversation_history.
C3_ReturnAppendsTurn ==
    [][\A r \in Requests :
          (pc[r] # "returned" /\ pc'[r] = "returned") =>
              conversation_history' =
                  Append(conversation_history,
                         [user |-> req'[r].question, bot |-> req'[r].answer])]_vars

\* C4: a request whose question could not be embedded returns a fallback
\* message; the embedding failure is not raised out of the handler.
C4_EmbeddingFailureReturnsFallback ==
    \A r \in Requests :
        Finished(r) => ~(pc[r] = "raised" /\ req[r].exc = "EmbeddingFailure")

\* C8: the history a request reads for its prompt is the last min(5, length)
\* turns of conversation_history in their order, and conversation_history only
\* ever changes by one turn being added at its end (its order is append order).
C8_RecentIsLastTurns ==
    /\ [](\A r \in Requests :
            pc[r] = "post" =>
              LET n == Len(conversation_history)
                  m == IF n < HISTORY_WINDOW THEN n ELSE HISTORY_WINDOW
              IN  /\ Len(req[r].history) = m
                  /\ \A k \in 1..m : req[r].history[k] = conversation_history[n - m + k])
    /\ [][conversation_history' # conversation_history =>
            /\ Len(conversation_history') = Len(conversation_history) + 1
            /\ SubSeq(conversation_history', 1, Len(conversation_history))
                  = conversation_history]_vars

C8_Witness ==
    \E r \in Requests :
        /\ pc[r] = "post"
        /\ Len(conversation_history) = 7
        /\ req[r].history = SubSeq(conversation_history, 3, 7)
        /\ req[r].history[1] # req[r].history[5]

\* The turns of the requests that have returned, in the order they were handled.
TurnsOfReturned ==
    LET done == SelectSeq(served, LAMBDA r : pc[r] = "returned")
    IN  [k \in 1..Len(done) |-> [user |-> req[done[k]].question, bot |-> req[done[k]].answer]]

\* C9: handlers run one after another; whenever none is running,
\* conversation_history holds one turn per request that returned, in the order
\* the requests were handled, each pairing the request's question with the
\* answer returned for it.
C9_HistoryIsTurnsInRequestOrder ==
    running = 0 => conversation_history = TurnsOfReturned

\* C10: a retrieval query made while the collection is empty gives the request
\* an empty sequence of chunks and lets it go on to the next step.
C10_EmptyIndexQueryIsEmpty ==
    [][\A r \in Requests :
          (pc[r] = "query" /\ pc'[r] # "query" /\ collection = <<>>) =>
              (pc'[r] = "history" /\ req'[r].chunks = <<>>)]_vars

C10_Witness ==
    \E r \in Requests :
        /\ pc[r] = "history"
        /\ req[r].chunks = <<>>
        /\ collection = <<>>
        /\ Len(threads) = 1
        /\ threads[1].pc \in {"embed", "add"}

(***************************************************************************)
(* Properties of loading and of the indexing run.                          *)
(***************************************************************************)
HasLoaded(t) == threads[t].pc \notin {"check", "load"}

Ended(t) == threads[t].pc \in {"done", "crashed"}

\* The readable .txt files of a folder, in listing order.
ReadableTxt(f) == SelectSeq(listdir(f), LAMBDA x : endswith(x.name, TXT) /\ x.readable)

\* C11: a file that cannot be read does not abort load_documents: the load
\* step never ends the thread with the read error, and the documents it
\* returns are all the readable .txt files of the folder.
C11_UnreadableFileIsSkipped ==
    \A t \in 1..Len(threads) :
        HasLoaded(t) =>
            /\ threads[t].exc # "OSError"
            /\ Len(docs_of(folder)) = Len(ReadableTxt(folder))
            /\ \A d \in 1..Len(docs_of(folder)) :
                  docs_of(folder)[d].name = ReadableTxt(folder)[d].name

\* C12: once embedding or inserting a chunk has failed in the indexing run,
\* the collection is never changed again; no step ever removes or alters an
\* entry; a query made with at most TOP_K entries stored returns the document
\* of every one of them; and a failed run leaves every request step enabled.
C12_FailedRunKeepsPartialIndex ==
    /\ [][(\E t \in 1..Len(threads) : threads[t].exc \in {"EmbeddingFailure", "IndexFailure"})
             => collection' = collection]_vars
    /\ [][Len(collection') >= Len(collection)
             /\ SubSeq(collection', 1, Len(collection)) = collection]_vars
    /\ [][\A r \in Requests :
             (pc[r] = "query" /\ pc'[r] = "history" /\ Len(collection) <= TOP_K) =>
                 /\ Len(req'[r].chunks) = Len(collection)
                 /\ \A k \in 1..Len(collection) :
                       \E j \in 1..Len(req'[r].chunks) : req'[r].chunks[j] = collection[k].document]_vars
    /\ [](\A r \in Requests :
             (\E t \in 1..Len(threads) : threads[t].pc = "crashed") =>
                 /\ pc[r] = "trigger" => ENABLED ensure_index_background_check(r)
                 /\ pc[r] = "embed" => ENABLED embed_question(r)
                 /\ pc[r] = "query" => ENABLED search_relevant_chunks(r)
                 /\ pc[r] = "history" => ENABLED read_history(r)
                 /\ pc[r] = "post" => ENABLED post_generate(r)
                 /\ pc[r] = "reply" => ENABLED reply(r))

C12_Witness ==
    /\ Len(threads) = 1
    /\ threads[1].pc = "crashed"
    /\ threads[1].exc \in {"EmbeddingFailure", "IndexFailure"}
    /\ Len(collection) = 2
    /\ \E r \in Requests : pc[r] = "history" /\ Len(req[r].chunks) = 2

(***************************************************************************)
(* Properties of concurrent requests.                                      *)
(***************************************************************************)
\* C13: while one request waits in the embedder, the collection or the
\* generation call, any other request that is waiting to be handled can have
\* its handler started.
C13_BlockedRequestDoesNotBlockOthers ==
    \A r, q \in Requests :
        (r # q /\ pc[r] \in {"embed", "query", "post"} /\ pc[q] = "queued")
            => ENABLED ask_api(q)

\* The request reached line 113.
Appended(r) == pc[r] = "returned" /\ req[r].response.status_code = HTTP_OK

IsSuffix(s, h) == Len(s) <= Len(h) /\ s = SubSeq(h, Len(h) - Len(s) + 1, Len(h))

\* C14: conversation_history holds exactly one turn for each request that
\* reached the append step, in the order those requests were handled, each turn
\* pairing the request's own question and answer; and the history a request
\* has read is a contiguous suffix of conversation_history.
C14_OneTurnPerAppendingRequest ==
    /\ LET done == SelectSeq(served, Appended)
       IN  /\ Len(conversation_history) = Len(done)
           /\ \A k \in 1..Len(done) :
                 conversation_history[k] =
                     [user |-> req[done[k]].question, bot |-> req[done[k]].answer]
    /\ \A r \in Requests :
          pc[r] \in {"post", "reply"} => IsSuffix(req[r].history, conversation_history)

C14_Witness ==
    /\ MaxRequests >= 2
    /\ Len(served) >= 2
    /\ served[1] > served[2]
    /\ Appended(served[1])
    /\ pc[served[2]] = "reply"
    /\ req[served[2]].history = conversation_history
    /\ req[served[1]].question # req[served[2]].question
    /\ Len(conversation_history) = 1

(***************************************************************************)
(* Properties of the ids and of the loaded text.                           *)
(***************************************************************************)
\* The id is name, "_", decimal digits of some index below the chunk count of
\* a loaded document called name.
WellFormedId(id) ==
    \E d \in 1..Len(docs_of(folder)) :
        \E n \in 0..(Len(chunks_of(folder, d)) - 1) :
            LET name == docs_of(folder)[d].name
            IN  /\ Len(id) > Len(name) + 1
                /\ SubSeq(id, 1, Len(name)) = name
                /\ id[Len(name) + 1] = "_"
                /\ SubSeq(id, Len(name) + 2, Len(id)) = Digits(n)

\* The id the thread is about to pass to collection.add.
PendingId(t) == chunk_id(docs_of(folder)[threads[t].d].name, threads[t].i - 1)

\* C15: the ids in the collection are pairwise distinct and each is
\* "<document_name>_<index>" for a loaded document and an index below its chunk
\* count; an id about to be passed to collection.add is of that form and is not
\* in the collection, and every id handed over earlier is in the collection.
C15_ChunkIdsUnique ==
    /\ \A j, k \in 1..Len(collection) : collection[j].id = collection[k].id => j = k
    /\ \A k \in 1..Len(collection) : WellFormedId(collection[k].id)
    /\ \A t \in 1..Len(threads) :
          threads[t].pc = "add" =>
              /\ WellFormedId(PendingId(t))
              /\ \A k \in 1..Len(collection) : collection[k].id # PendingId(t)
    /\ \A t \in 1..Len(threads) :
          threads[t].pc \in {"embed", "add"} =>
              \A d \in 1..threads[t].d :
                  \A i \in 1..(IF d < threads[t].d THEN Len(chunks_of(folder, d))
                                                  ELSE threads[t].i - 1) :
                      \E k \in 1..Len(collection) :
                          collection[k].id = chunk_id(docs_of(folder)[d].name, i - 1)

C15_Witness ==
    /\ Len(collection) = 3
    /\ \E j, k \in 1..Len(collection) :
          j # k /\ collection[j].source = collection[k].source
    /\ \E r \in Requests : pc[r] = "embed"

IsNormalized(text) ==
    /\ text # <<>> => ~IsSpace(text[1]) /\ ~IsSpace(text[Len(text)])
    /\ \A k \in 1..(Len(text) - 1) : ~(IsSpace(text[k]) /\ IsSpace(text[k + 1]))

\* C16: the content of every document load_documents returns has no leading
\* or trailing whitespace and no two consecutive whitespace characters.
C16_LoadedContentIsNormalized ==
    \A t \in 1..Len(threads) :
        HasLoaded(t) =>
            \A d \in 1..Len(docs_of(folder)) : IsNormalized(docs_of(folder)[d].content)

(***************************************************************************)
(* Properties of the answer and of the pipeline after retrieval.           *)
(***************************************************************************)
AllSpace(text) == \A k \in 1..Len(text) : IsSpace(text[k])

\* The text from its first to its last character that is not whitespace.
Trimmed(text) ==
    LET solid == {k \in 1..Len(text) : ~IsSpace(text[k])}
        first == CHOOSE k \in solid : \A j \in solid : k <= j
        last  == CHOOSE k \in solid : \A j \in solid : k >= j
    IN  SubSeq(text, first, last)

\* C17: a returned answer is never empty and never starts or ends with
\* whitespace; for a 200 reply it is the fallback message when the generated
\* text is empty or all whitespace, and the trimmed generated text otherwise.
C17_AnswerIsTrimmedNonEmpty ==
    \A r \in Requests :
        pc[r] = "returned" =>
            /\ req[r].answer # <<>>
            /\ ~IsSpace(req[r].answer[1])
            /\ ~IsSpace(req[r].answer[Len(req[r].answer)])
            /\ req[r].response.status_code = HTTP_OK =>
                  req[r].answer = IF AllSpace(req[r].response.text)
                                  THEN EMPTY_ANSWER
                                  ELSE Trimmed(req[r].response.text)

C17_Witness ==
    /\ \E r \in Requests :
          /\ pc[r] = "returned"
          /\ req[r].response.text = <<" ", "A", "\n">>
          /\ req[r].answer = <<"A">>
    /\ \E r \in Requests :
          /\ pc[r] = "returned"
          /\ req[r].response.text = <<" ">>
          /\ req[r].answer = EMPTY_ANSWER

\* C18: a request whose retrieval returned no chunks goes on through every
\* later step: from the history read to the generation call, from the
\* generation call to the reply handling, and its last step appends the turn
\* {question, answer} to conversation_history.
C18_EmptyRetrievalRunsWholePipeline ==
    [][\A r \in Requests :
          (req[r].chunks = <<>> /\ pc'[r] # pc[r]) =>
              /\ pc[r] = "history" => pc'[r] = "post"
              /\ pc[r] = "post" => pc'[r] = "reply"
              /\ pc[r] = "reply" =>
                    /\ pc'[r] = "returned"
                    /\ conversation_history' =
                          Append(conversation_history,
                                 [user |-> req'[r].question, bot |-> req'[r].answer])]_vars

(***************************************************************************)
(* Properties of the start-once flag.                                      *)
(***************************************************************************)
\* C19: _index_started, once true, stays true; and once an indexing run has
\* been started and every started run has ended (finished or been ended by an
\* exception), no step starts another run or changes the collection.
C19_IndexingStartsOnceForGood ==
    /\ [][_index_started => _index_started']_vars
    /\ [][(Len(threads) >= 1 /\ \A t \in 1..Len(threads) : Ended(t))
             => (threads' = threads /\ collection' = collection)]_vars

C19_Witness ==
    /\ Len(threads) = 1
    /\ threads[1].pc = "done"
    /\ Len(collection) >= 1
    /\ _index_started
    /\ \E r \in Requests : pc[r] = "embed"
    /\ \E r \in Requests : pc[r] \in {"returned", "raised"}

\* C20: a request is handled only after the module import has made its
\* trigger: whenever a request has arrived, the import is over, _index_started
\* is true and exactly one run has been started, and no request ever gets to
\* the start branch of ensure_index_background.
C20_RequestTriggerIsNoOp ==
    \A r \in Requests :
        /\ pc[r] # "idle" => (pc[0] = "loaded" /\ _index_started /\ Len(threads) = 1)
        /\ pc[r] # "start"

C20_Witness ==
    /\ \E r \in Requests : pc[r] = "embed"
    /\ \E r \in Requests : pc[r] = "queued"
    /\ _index_started
    /\ Len(threads) = 1
    /\ threads[1].pc = "check"

====
